---- MODULE Spec2Model ----
(***************************************************************************)
(* A model of the recipe-sharing application: the relational store (User,  *)
(* Category, Recipe, Ingredient, Comment, Rating rows), the upload folder, *)
(* and the request handlers of routes/auth.py, routes/recipes.py and       *)
(* routes/main.py.  A handler is an operator from the store and the        *)
(* request's inputs to the store it leaves and the response it gives; an   *)
(* action installs that outcome.  Every handler is one atomic step (one    *)
(* request-scoped transaction); rate is also given in two steps, split at  *)
(* its "existing rating?" query, so that rate requests can interleave.     *)
(*                                                                         *)
(* Texts that the code strips, lowercases, parses or concatenates are      *)
(* sequences of one-character strings; amounts are exact rationals         *)
(* <<numerator, denominator>> in lowest terms (the rounding of the         *)
(* store's floats is not modelled).  An optional value is None (<<>>) or   *)
(* Some(x) (<<x>>).                                                        *)
(***************************************************************************)
EXTENDS Integers, Sequences, FiniteSets, Bags, TLC

VARIABLES
    users,        \* set of User rows [id, username, email]
    categories,   \* set of Category rows [id, name]
    recipes,      \* set of Recipe rows [id, user_id, category_id, servings, image, title,
                  \*   description, instructions, prep_time, cook_time, difficulty]
    ingredients,  \* the Ingredient table in row order: [recipe_id, name, amount, unit, notes, order]
    comments,     \* set of Comment rows [id, user_id, recipe_id, content]
    ratings,      \* set of Rating rows [id, user_id, recipe_id, score]
    files,        \* names of the files in the upload folder
    nextId,       \* next primary key per table [recipe, comment, rating]
    reqs,         \* rate requests in flight, past their query: a bag of [user, recipe, score, existing]
    resp          \* the response to the request handled last: [op, status, msg, data]

\* the persisted state as one value, and the action that installs an outcome
Store == [users |-> users, categories |-> categories, recipes |-> recipes, ingredients |-> ingredients,
          comments |-> comments, ratings |-> ratings, files |-> files,
          nextId |-> nextId]

Install(out) ==
    /\ users' = out.st.users
    /\ categories' = out.st.categories
    /\ recipes' = out.st.recipes
    /\ ingredients' = out.st.ingredients
    /\ comments' = out.st.comments
    /\ ratings' = out.st.ratings
    /\ files' = out.st.files
    /\ nextId' = out.st.nextId
    /\ resp' = out.resp

Out(st, response) == [st |-> st, resp |-> response]
vars == <<users, categories, recipes, ingredients, comments, ratings, files, nextId, reqs, resp>>

(***************************************************************************)
(* Bounds of the model.                                                    *)
(***************************************************************************)
MaxUsers == 3
MaxRecipes == 2
MaxComments == 1
MaxRatings == 2
MaxReq == 2
MaxListed == 2

(***************************************************************************)
(* Optional values, texts and rationals.                                   *)
(***************************************************************************)
None == <<>>
Some(x) == <<x>>
Val(o) == o[1]

Digits == {"0", "1", "2", "3", "4", "5", "6", "7", "8", "9"}

DigitVal(c) ==
    CASE c = "0" -> 0 [] c = "1" -> 1 [] c = "2" -> 2 [] c = "3" -> 3 [] c = "4" -> 4
      [] c = "5" -> 5 [] c = "6" -> 6 [] c = "7" -> 7 [] c = "8" -> 8 [] c = "9" -> 9

RECURSIVE GCD(_, _)
GCD(a, b) == IF b = 0 THEN a ELSE GCD(b, a % b)

Abs(n) == IF n < 0 THEN -n ELSE n

\* the rational n/d (d > 0) in lowest terms
Rat(n, d) == LET g == GCD(Abs(n), d) IN <<n \div g, d \div g>>
RatMul(a, b) == Rat(a[1] * b[1], a[2] * b[2])
RatAdd(a, b) == Rat(a[1] * b[2] + b[1] * a[2], a[2] * b[2])
RatZero == <<0, 1>>

\* str.strip(): drop leading and trailing blanks
RECURSIVE LStrip(_)
LStrip(s) == IF s # <<>> /\ Head(s) = " " THEN LStrip(Tail(s)) ELSE s
RECURSIVE RStrip(_)
RStrip(s) == IF s # <<>> /\ s[Len(s)] = " " THEN RStrip(SubSeq(s, 1, Len(s) - 1)) ELSE s
Strip(s) == RStrip(LStrip(s))

\* str.lower(), on the letters the model's texts use
LowerChar(c) ==
    CASE c = "E" -> "e" [] c = "F" -> "f" [] c = "S" -> "s" [] c = "G" -> "g"
      [] OTHER -> c
Lower(s) == [i \in 1..Len(s) |-> LowerChar(s[i])]

(***************************************************************************)
(* The store: constraints and queries (models.py).                         *)
(***************************************************************************)
\* the first default categories that app.py creates at start-up
DefaultCategories == {[id |-> 1, name |-> "Italian"], [id |-> 2, name |-> "Mexican"]}

InitialResp == [op |-> "none", status |-> "none", msg |-> "", data |-> <<>>]

Response(op, status, msg, data) ==
    [op |-> op, status |-> status, msg |-> msg, data |-> data]

\* User.username and User.email are unique=True: may `row` be inserted?
UniqueUser(rows, row) ==
    \A u \in rows : u.username # row.username /\ u.email # row.email

\* a Rating table without the unique constraint
UniqueUserRecipeRatingAbsent(rows, row) == TRUE

\* UniqueConstraint('user_id', 'recipe_id'): may `row` be inserted into `rows`?
UniqueUserRecipeRating(rows, row) ==
    \A x \in rows : ~(x.user_id = row.user_id /\ x.recipe_id = row.recipe_id)

\* db.ForeignKey('user.id') and db.ForeignKey('recipe.id') of a Rating row,
\* checked by the store only when it enforces foreign keys (fk)
RatingForeignKeys(st, row, fk) ==
    fk =>
        /\ \E u \in st.users : u.id = row.user_id
        /\ \E r \in st.recipes : r.id = row.recipe_id

\* Recipe.query.get(id): the set holding the row, or empty
RecipeGet(st, id) == {r \in st.recipes : r.id = id}

\* Rating.query.filter_by(user_id=..., recipe_id=...): the matching rows
RatingsOf(table, user_id, recipe_id) ==
    {x \in table : x.user_id = user_id /\ x.recipe_id = recipe_id}

\* recipe.ingredients, recipe.comments, recipe.ratings in a given table
IngredientsOf(table, rid) == SelectSeq(table, LAMBDA g : g.recipe_id = rid)
CommentsOfRecipe(table, rid) == {c \in table : c.recipe_id = rid}
RatingsOfRecipe(table, rid) == {x \in table : x.recipe_id = rid}

\* Category.recipe_count
recipe_count(table, cid) == Cardinality({r \in table : r.category_id = cid})

RECURSIVE SumScores(_)
SumScores(rows) ==
    IF rows = {} THEN 0
    ELSE LET x == CHOOSE y \in rows : TRUE IN x.score + SumScores(rows \ {x})

\* Recipe.get_average_rating, over the Rating table `table`
get_average_rating(table, rid) ==
    LET rs == RatingsOfRecipe(table, rid) IN
    IF rs = {} THEN RatZero
    ELSE Rat(SumScores(rs), Cardinality(rs))

(***************************************************************************)
(* Registration (routes/auth.py).                                          *)
(***************************************************************************)
\* RegisterForm.validate_on_submit: the username length rule
RegisterFormValid(form) == Len(form.username) >= 3 /\ Len(form.username) <= 20

\* a duplicate query that looks at the email only
ExistingUsersByEmail(st, form) == {u \in st.users : u.email = form.email}

\* the rows matched by filter((email == ...) | (username == ...))
ExistingUsers(st, form) ==
    {u \in st.users : u.email = form.email \/ u.username = form.username}

\* what .first() may return: with no ORDER BY, any one of the matching rows
FirstUser(st, form) ==
    IF ExistingUsers(st, form) = {} THEN {None}
    ELSE {Some(u) : u \in ExistingUsers(st, form)}

\* the message flashed for the row that .first() returned
RegisterMessage(existing_user, form) ==
    IF existing_user.email = form.email THEN "Email already registered"
    ELSE "Username already taken"

\* register, with existing_user the result of .first()
Register(st, form, existing_user) ==
    IF ~RegisterFormValid(form)
    THEN Out(st, Response("register", "invalid", "", <<>>))
    ELSE IF existing_user # None
    THEN Out(st, Response("register", "rejected",
                          RegisterMessage(Val(existing_user), form), <<>>))
    ELSE LET user == [id |-> Cardinality(st.users) + 1,
                      username |-> form.username, email |-> form.email] IN
         IF UniqueUser(st.users, user)
         THEN Out([st EXCEPT !.users = @ \cup {user}],
                  Response("register", "ok", "Registration successful! Please log in.", <<>>))
         ELSE Out(st, Response("register", "integrity_error", "", <<>>))

(***************************************************************************)
(* Recipe forms and ingredient parsing (forms.py, routes/recipes.py).      *)
(***************************************************************************)
tEgg == <<"E", "g", "g">>
tegg == <<"e", "g", "g">>
tSalt == <<"S", "a", "l", "t">>
tCup == <<"c", "u", "p">>
tG == <<"g">>
tBlank == <<" ">>
tNote == <<"x">>

\* RecipeForm.validate_on_submit: servings is required and in 1..50, and
\* the category is one of the choices (the ids of the Category rows)
\* RecipeForm.difficulty choices
Difficulties == {"Easy", "Medium", "Hard"}

\* Optional(), NumberRange(min=0, max=1440) of prep_time and cook_time
MinutesValid(minutes) == minutes = None \/ (Val(minutes) >= 0 /\ Val(minutes) <= 1440)

RecipeFormValid(st, form) ==
    /\ form.servings # None
    /\ Val(form.servings) >= 1
    /\ Val(form.servings) <= 50
    /\ \E c \in st.categories : c.id = form.category_id
    /\ Strip(form.title) # <<>> /\ Len(form.title) <= 200
    /\ Len(form.description) <= 500
    /\ Strip(form.instructions) # <<>>
    /\ MinutesValid(form.prep_time)
    /\ MinutesValid(form.cook_time)
    /\ form.difficulty \in Difficulties

IsNotDot(c) == c # "."

\* the position of the first "." of s from position i on, or 0
RECURSIVE DotAt(_, _)
DotAt(s, i) == IF i > Len(s) THEN 0 ELSE IF s[i] = "." THEN i ELSE DotAt(s, i + 1)

RECURSIVE DigitsValue(_)
DigitsValue(s) ==
    IF s = <<>> THEN 0
    ELSE 10 * DigitsValue(SubSeq(s, 1, Len(s) - 1)) + DigitVal(s[Len(s)])

RECURSIVE Pow10(_)
Pow10(k) == IF k = 0 THEN 1 ELSE 10 * Pow10(k - 1)

\* float(a) if a and a.replace('.', '').isdigit() else None
\* [err |-> float() raised ValueError, val |-> the amount or None]
ParseAmount(a) ==
    LET stripped == SelectSeq(a, IsNotDot)
        isdigit == stripped # <<>> /\ \A i \in 1..Len(stripped) : stripped[i] \in Digits
        dots == Len(a) - Len(stripped)
        dot == DotAt(a, 1)
        places == IF dot = 0 THEN 0 ELSE Len(a) - dot
    IN  IF a = <<>> \/ ~isdigit THEN [err |-> FALSE, val |-> None]
        ELSE IF dots > 1 THEN [err |-> TRUE, val |-> None]
        ELSE [err |-> FALSE, val |-> Some(Rat(DigitsValue(stripped), Pow10(places)))]

\* the loop over enumerate(ingredients_data), from 1-based position i on:
\* [ok |-> no exception was raised, rows |-> the Ingredient rows added]
RECURSIVE BuildIngredients(_, _, _)
BuildIngredients(form, rid, i) ==
    LET names == form.ingredient_name
        amounts == form.ingredient_amount
        units == form.ingredient_unit
        notes == form.ingredient_notes
    IN  IF i > Len(names) THEN [ok |-> TRUE, rows |-> <<>>]
        ELSE IF Strip(names[i]) = <<>> THEN BuildIngredients(form, rid, i + 1)
        ELSE IF i > Len(amounts) THEN [ok |-> FALSE, rows |-> <<>>]    \* IndexError
        ELSE IF ParseAmount(amounts[i]).err THEN [ok |-> FALSE, rows |-> <<>>]  \* ValueError
        ELSE LET row == [recipe_id |-> rid,
                         name |-> Strip(names[i]),
                         amount |-> ParseAmount(amounts[i]).val,
                         unit |-> IF i <= Len(units) THEN Strip(units[i]) ELSE <<>>,
                         notes |-> IF i <= Len(notes) THEN Strip(notes[i]) ELSE <<>>,
                         order |-> i - 1]
                 rest == BuildIngredients(form, rid, i + 1)
             IN  [ok |-> rest.ok, rows |-> IF rest.ok THEN <<row>> \o rest.rows ELSE <<>>]

\* save_recipe_image for a present upload: the stored file name, or None
\* when opening or writing the image raised
save_recipe_image(actor, image, saveOk) ==
    IF saveOk THEN Some(<<actor.id, Val(image)>>) ELSE None

\* the files a save leaves in the upload folder
SavedFiles(image_filename) ==
    IF image_filename # None THEN {Val(image_filename)} ELSE {}

\* an ownership test that lets every logged-in user through
IsOwnerAnyone(recipe, actor) == TRUE

\* the ownership test of edit and delete
IsOwner(recipe, actor) == recipe.user_id = actor.id

(***************************************************************************)
(* Recipe handlers (routes/recipes.py).                                    *)
(***************************************************************************)
Create(st, actor, form, saveOk) ==
    IF ~RecipeFormValid(st, form)
    THEN Out(st, Response("create", "invalid", "", <<>>))
    ELSE LET image_filename ==
                 IF form.image # None THEN save_recipe_image(actor, form.image, saveOk)
                 ELSE None
             recipe == [id |-> st.nextId.recipe,
                        user_id |-> actor.id,
                        category_id |-> form.category_id,
                        servings |-> Val(form.servings),
                        image |-> image_filename,
                        title |-> form.title,
                        description |-> form.description,
                        instructions |-> form.instructions,
                        prep_time |-> form.prep_time,
                        cook_time |-> form.cook_time,
                        difficulty |-> form.difficulty]
             built == BuildIngredients(form, recipe.id, 1)
             saved == [st EXCEPT !.files = @ \cup SavedFiles(image_filename)]
         IN  IF built.ok
             THEN Out([saved EXCEPT !.recipes = @ \cup {recipe},
                                    !.ingredients = @ \o built.rows,
                                    !.nextId.recipe = @ + 1],
                      Response("create", "ok", "Recipe created successfully!", recipe.id))
             ELSE \* unhandled exception: the transaction is rolled back
                  Out(saved, Response("create", "error500", "", <<>>))

\* a bulk delete that removes nothing
DeleteIngredientsNone(table, rid) == table

\* Ingredient.query.filter_by(recipe_id=recipe.id).delete()
DeleteIngredients(table, rid) == SelectSeq(table, LAMBDA g : g.recipe_id # rid)

Edit(st, actor, id, form, saveOk) ==
    IF RecipeGet(st, id) = {}
    THEN Out(st, Response("edit", "not_found", "", <<>>))
    ELSE LET recipe == CHOOSE r \in RecipeGet(st, id) : TRUE IN
         IF ~IsOwner(recipe, actor)
         THEN Out(st, Response("edit", "forbidden", "You can only edit your own recipes", <<>>))
         ELSE IF ~RecipeFormValid(st, form)
         THEN Out(st, Response("edit", "invalid", "", <<>>))
         ELSE LET image_filename ==
                      IF form.image # None
                      THEN save_recipe_image(actor, form.image, saveOk)
                      ELSE None
                  updated == [id |-> recipe.id,
                              user_id |-> recipe.user_id,
                              category_id |-> form.category_id,
                              servings |-> Val(form.servings),
                              image |-> IF image_filename # None THEN image_filename
                                        ELSE recipe.image,
                              title |-> form.title,
                              description |-> form.description,
                              instructions |-> form.instructions,
                              prep_time |-> form.prep_time,
                              cook_time |-> form.cook_time,
                              difficulty |-> form.difficulty]
                  kept == DeleteIngredients(st.ingredients, recipe.id)
                  built == BuildIngredients(form, recipe.id, 1)
                  saved == [st EXCEPT !.files = @ \cup SavedFiles(image_filename)]
              IN  IF built.ok
                  THEN Out([saved EXCEPT !.recipes = (@ \ {recipe}) \cup {updated},
                                         !.ingredients = kept \o built.rows],
                           Response("edit", "ok", "Recipe updated successfully!", <<>>))
                  ELSE \* unhandled exception: the transaction is rolled back
                       Out(saved, Response("edit", "error500", "", <<>>))

\* cascade='all, delete-orphan' on Recipe.ingredients, .comments and .ratings
CascadeIngredients(table, rid) == SelectSeq(table, LAMBDA g : g.recipe_id # rid)
CascadeCommentsKept(table, rid) == table    \* comments without the cascade
CascadeComments(table, rid) == {c \in table : c.recipe_id # rid}
CascadeRatingsKept(table, rid) == table    \* ratings without the cascade
CascadeRatings(table, rid) == {x \in table : x.recipe_id # rid}

\* delete; removeFails: os.remove raised (the exception is printed and swallowed)
Delete(st, actor, id, removeFails) ==
    IF RecipeGet(st, id) = {}
    THEN Out(st, Response("delete", "not_found", "", <<>>))
    ELSE LET recipe == CHOOSE r \in RecipeGet(st, id) : TRUE IN
         IF ~IsOwner(recipe, actor)
         THEN Out(st, Response("delete", "forbidden",
                               "You can only delete your own recipes", <<>>))
         ELSE Out([st EXCEPT !.files = IF recipe.image # None /\ ~removeFails
                                       THEN @ \ {Val(recipe.image)} ELSE @,
                             !.recipes = @ \ {recipe},
                             !.ingredients = CascadeIngredients(@, recipe.id),
                             !.comments = CascadeComments(@, recipe.id),
                             !.ratings = CascadeRatings(@, recipe.id)],
                  Response("delete", "ok", "Recipe deleted successfully!", <<>>))

\* CommentForm.validate_on_submit: content is required, at most 1000 characters
CommentFormValid(content) == Len(content) >= 1 /\ Len(content) <= 1000

AddComment(st, actor, id, content) ==
    IF RecipeGet(st, id) = {}
    THEN Out(st, Response("comment", "not_found", "", <<>>))
    ELSE IF ~CommentFormValid(content)
    THEN Out(st, Response("comment", "invalid", "", <<>>))
    ELSE Out([st EXCEPT !.comments = @ \cup {[id |-> st.nextId.comment,
                                               user_id |-> actor.id,
                                               recipe_id |-> id, content |-> content]},
                        !.nextId.comment = @ + 1],
             Response("comment", "ok", "Comment added successfully!", <<>>))

(***************************************************************************)
(* The rate handler (routes/recipes.py).  RateQuery is the handler up to   *)
(* and including the "existing rating?" query: it answers at once (a       *)
(* response) or leaves a request to be finished.  RateFinish is the        *)
(* insert-or-update and the commit.  Rate is the two run back to back.     *)
(***************************************************************************)
\* a validation without the upper limit
ScoreInvalidNoUpper(score) ==
    \/ score = None
    \/ Val(score) = 0
    \/ Val(score) < 1

\* not score or score < 1 or score > 5
ScoreInvalid(score) ==
    \/ score = None
    \/ Val(score) = 0
    \/ Val(score) < 1
    \/ Val(score) > 5

\* Rating.query.filter_by(...).first(): None, or the id of a matching row
FirstRating(st, user_id, recipe_id) ==
    IF RatingsOf(st.ratings, user_id, recipe_id) = {} THEN {None}
    ELSE {Some(x.id) : x \in RatingsOf(st.ratings, user_id, recipe_id)}

\* [done |-> the handler has answered, resp |-> its answer, req |-> the request to finish]
RateQuery(st, actor, id, score, existing_rating) ==
    IF RecipeGet(st, id) = {}
    THEN [done |-> TRUE, resp |-> Response("rate", "not_found", "", <<>>), req |-> None]
    ELSE IF ScoreInvalid(score)
    THEN [done |-> TRUE, resp |-> Response("rate", "invalid", "Invalid rating", <<>>),
          req |-> None]
    ELSE [done |-> FALSE, resp |-> InitialResp,
          req |-> Some([user |-> actor.id, recipe |-> id, score |-> Val(score),
                        existing |-> existing_rating])]

\* an update that is never flushed
UpdateScoreLost(table, rating_id, score) == table

\* existing_rating.score = score, flushed as UPDATE ... WHERE id = existing
UpdateScore(table, rating_id, score) ==
    {IF x.id = rating_id THEN [x EXCEPT !.score = score] ELSE x : x \in table}

\* may db.session.add(rating); db.session.commit() succeed?
InsertAllowed(st, row, fk) ==
    UniqueUserRecipeRating(st.ratings, row) /\ RatingForeignKeys(st, row, fk)

\* the JSON body of a successful rate
RateBody(table, req) ==
    [new_average |-> get_average_rating(table, req.recipe), user_rating |-> req.score]

RateFinish(st, req, fk) ==
    IF req.existing # None
    THEN IF \E x \in st.ratings : x.id = Val(req.existing)
         THEN LET table == UpdateScore(st.ratings, Val(req.existing), req.score) IN
              Out([st EXCEPT !.ratings = table],
                  Response("rate", "ok", "Rating submitted successfully!",
                           RateBody(table, req)))
         ELSE \* the row is gone: the UPDATE matches no row (StaleDataError)
              Out(st, Response("rate", "stale_error", "", <<>>))
    ELSE LET rating == [id |-> st.nextId.rating, user_id |-> req.user,
                        recipe_id |-> req.recipe, score |-> req.score]
             table == st.ratings \cup {rating}
         IN  IF InsertAllowed(st, rating, fk)
             THEN Out([st EXCEPT !.ratings = table, !.nextId.rating = @ + 1],
                      IF RecipeGet(st, req.recipe) # {}
                      THEN Response("rate", "ok", "Rating submitted successfully!",
                                    RateBody(table, req))
                      ELSE \* the row is committed; the answer reloads the recipe,
                           \* which another request deleted (ObjectDeletedError)
                           Response("rate", "error500", "", <<>>))
             ELSE \* IntegrityError raised by the commit, not caught by the handler
                  Out(st, Response("rate", "integrity_error",
                                   IF UniqueUserRecipeRating(st.ratings, rating)
                                   THEN "FOREIGN KEY constraint failed"
                                   ELSE "UNIQUE constraint failed", <<>>))

\* the whole handler, with no other request between its query and its commit
Rate(st, actor, id, score, existing_rating, fk) ==
    LET q == RateQuery(st, actor, id, score, existing_rating) IN
    IF q.done THEN Out(st, q.resp) ELSE RateFinish(st, Val(q.req), fk)

(***************************************************************************)
(* Scaling and the shopping list (models.py, routes/main.py).              *)
(***************************************************************************)
\* the dict built for one ingredient with scale factor f
ScaledEntry(ingredient, f) ==
    [name |-> ingredient.name,
     amount |-> IF ingredient.amount # None /\ Val(ingredient.amount) # RatZero
                THEN Some(RatMul(Val(ingredient.amount), f))
                ELSE None,
     unit |-> ingredient.unit,
     notes |-> ingredient.notes]

\* Recipe.get_scaled_ingredients(new_servings), new_servings an integer
get_scaled_ingredients(st, recipe, new_servings) ==
    LET rows == IngredientsOf(st.ingredients, recipe.id) IN
    IF recipe.servings = 0 THEN rows
    ELSE LET scale_factor == Rat(new_servings, recipe.servings) IN
         [i \in 1..Len(rows) |-> ScaledEntry(rows[i], scale_factor)]

\* not new_servings or new_servings <= 0
ServingsInvalid(new_servings) ==
    \/ new_servings = None
    \/ Val(new_servings) = 0
    \/ Val(new_servings) <= 0

\* a scaling that stores the new number of servings in the recipe
scale_recipe_in_place(st, recipe_id, new_servings) ==
    IF RecipeGet(st, recipe_id) = {}
    THEN Out(st, Response("scale", "not_found", "", <<>>))
    ELSE LET recipe == CHOOSE r \in RecipeGet(st, recipe_id) : TRUE IN
         IF ServingsInvalid(new_servings)
         THEN Out(st, Response("scale", "400", "Invalid serving size", <<>>))
         ELSE Out([st EXCEPT !.recipes = (@ \ {recipe})
                        \cup {[recipe EXCEPT !.servings = Val(new_servings)]}],
                  Response("scale", "200", "",
                     [original_servings |-> recipe.servings,
                      new_servings |-> Val(new_servings),
                      ingredients |->
                          get_scaled_ingredients(st, recipe, Val(new_servings))]))

\* scale_recipe: the status and the JSON body
scale_recipe(st, recipe_id, new_servings) ==
    IF RecipeGet(st, recipe_id) = {}
    THEN Out(st, Response("scale", "not_found", "", <<>>))
    ELSE LET recipe == CHOOSE r \in RecipeGet(st, recipe_id) : TRUE IN
         IF ServingsInvalid(new_servings)
         THEN Out(st, Response("scale", "400", "Invalid serving size", <<>>))
         ELSE Out(st, Response("scale", "200", "",
                     [original_servings |-> recipe.servings,
                      new_servings |-> Val(new_servings),
                      ingredients |->
                          get_scaled_ingredients(st, recipe, Val(new_servings))]))

\* servings[i] if i < len(servings) else recipe.servings, i a 1-based position
recipe_servings(recipe, servings, i) ==
    IF i <= Len(servings) THEN servings[i] ELSE recipe.servings

\* the position of key in the dict (a sequence of [key, value] in insertion order), or 0
RECURSIVE KeyAt(_, _, _)
KeyAt(dict, key, i) ==
    IF i > Len(dict) THEN 0
    ELSE IF dict[i].key = key THEN i
    ELSE KeyAt(dict, key, i + 1)

\* the body of the inner loop for one scaled ingredient
Combine(combined, ingredient) ==
    LET name == Lower(ingredient.name)
        unit == ingredient.unit
        amount == IF ingredient.amount # None THEN Val(ingredient.amount) ELSE RatZero
        key == name \o <<"_">> \o unit
        at == KeyAt(combined, key, 1)
    IN  IF at # 0
        THEN [combined EXCEPT ![at].value.amount = RatAdd(@, amount)]
        ELSE Append(combined, [key |-> key,
                               value |-> [name |-> ingredient.name, amount |-> amount,
                                          unit |-> unit, notes |-> ingredient.notes]])

RECURSIVE CombineAll(_, _, _)
CombineAll(combined, scaled, j) ==
    IF j > Len(scaled) THEN combined
    ELSE CombineAll(Combine(combined, scaled[j]), scaled, j + 1)

\* the outer loop of shopping_list from 1-based position i on
RECURSIVE ShoppingLoop(_, _, _, _, _)
ShoppingLoop(st, recipe_ids, servings, combined, i) ==
    IF i > Len(recipe_ids) THEN combined
    ELSE IF RecipeGet(st, recipe_ids[i]) = {}
    THEN ShoppingLoop(st, recipe_ids, servings, combined, i + 1)
    ELSE LET recipe == CHOOSE r \in RecipeGet(st, recipe_ids[i]) : TRUE
             scaled == get_scaled_ingredients(st, recipe,
                                              recipe_servings(recipe, servings, i))
         IN  ShoppingLoop(st, recipe_ids, servings,
                          CombineAll(combined, scaled, 1), i + 1)

\* shopping_list: the ingredients handed to the template
shopping_list(st, recipe_ids, servings) ==
    LET combined == ShoppingLoop(st, recipe_ids, servings, <<>>, 1) IN
    Out(st, Response("shopping_list", "200", "",
                     [i \in 1..Len(combined) |-> combined[i].value]))

(***************************************************************************)
(* Actions: a request is handled and its outcome installed.  The guards    *)
(* on nextId and on the number of users bound the model, not the program.  *)
(***************************************************************************)
DoRegister(form) ==
    \E existing_user \in FirstUser(Store, form) :
        LET out == Register(Store, form, existing_user) IN
        /\ out.st.users # users => Cardinality(users) < MaxUsers
        /\ Install(out)
        /\ UNCHANGED reqs

DoCreate(actor, form, saveOk) ==
    LET out == Create(Store, actor, form, saveOk) IN
    /\ out.st.nextId # nextId => nextId.recipe <= MaxRecipes
    /\ Install(out)
    /\ UNCHANGED reqs

DoEdit(actor, id, form, saveOk) ==
    /\ Install(Edit(Store, actor, id, form, saveOk))
    /\ UNCHANGED reqs

DoDelete(actor, id, removeFails) ==
    /\ Install(Delete(Store, actor, id, removeFails))
    /\ UNCHANGED reqs

DoComment(actor, id, content) ==
    LET out == AddComment(Store, actor, id, content) IN
    /\ out.st.nextId # nextId => nextId.comment <= MaxComments
    /\ Install(out)
    /\ UNCHANGED reqs

\* a rate request handled with no other request in between
DoRate(actor, id, score, fk) ==
    \E existing_rating \in FirstRating(Store, actor.id, id) :
        LET out == Rate(Store, actor, id, score, existing_rating, fk) IN
        /\ out.st.nextId # nextId => nextId.rating <= MaxRatings
        /\ Install(out)
        /\ UNCHANGED reqs

\* a rate request runs up to its query; other requests may run before it commits
RateBegin(actor, id, score) ==
    \E existing_rating \in FirstRating(Store, actor.id, id) :
        LET q == RateQuery(Store, actor, id, score, existing_rating) IN
        /\ IF q.done
           THEN resp' = q.resp /\ UNCHANGED reqs
           ELSE /\ BagCardinality(reqs) < MaxReq
                /\ reqs' = reqs (+) SetToBag({Val(q.req)})
                /\ UNCHANGED resp
        /\ UNCHANGED <<users, categories, recipes, ingredients, comments, ratings, files, nextId>>

RateCommit(req, fk) ==
    /\ BagIn(req, reqs)
    /\ RateFinish(Store, req, fk).st.nextId # nextId => nextId.rating <= MaxRatings
    /\ Install(RateFinish(Store, req, fk))
    /\ reqs' = reqs (-) SetToBag({req})

DoScale(recipe_id, new_servings) ==
    /\ Install(scale_recipe(Store, recipe_id, new_servings))
    /\ UNCHANGED reqs

DoShoppingList(recipe_ids, servings) ==
    /\ Install(shopping_list(Store, recipe_ids, servings))
    /\ UNCHANGED reqs

(***************************************************************************)
(* Inputs of the requests.                                                 *)
(***************************************************************************)
Alice == [username |-> "alice", email |-> "a@x.org"]
Bob == [username |-> "bob", email |-> "b@x.org"]
AliceRow == [id |-> 1, username |-> Alice.username, email |-> Alice.email]
BobRow == [id |-> 2, username |-> Bob.username, email |-> Bob.email]

FormA == [servings |-> Some(4), category_id |-> 1, image |-> Some("pic.png"),
          title |-> tEgg, description |-> <<>>, instructions |-> tNote,
          prep_time |-> None, cook_time |-> None, difficulty |-> "Easy",
          ingredient_name |-> <<tEgg>>, ingredient_amount |-> <<<<"2">>>>,
          ingredient_unit |-> <<<<>>>>, ingredient_notes |-> <<<<>>>>]
FormB == [servings |-> Some(2), category_id |-> 1, image |-> None,
          title |-> tSalt, description |-> <<>>, instructions |-> tNote,
          prep_time |-> None, cook_time |-> None, difficulty |-> "Easy",
          ingredient_name |-> <<tBlank, tSalt>>,
          ingredient_amount |-> <<<<>>, <<"0", ".", "5">>>>,
          ingredient_unit |-> <<<<>>, tG>>, ingredient_notes |-> <<<<>>, tNote>>]
FormNoServings == [FormA EXCEPT !.servings = Some(0)]
FormMisaligned == [FormB EXCEPT !.ingredient_name = <<tBlank, tSalt, tEgg>>]

RecipeForms == {FormA, FormB, FormNoServings, FormMisaligned}
RecipeIds == 1..MaxRecipes
ScoreInputs == {None, Some(0), Some(1), Some(5), Some(6)}
CommentInputs == {"", "Nice"}

EmptyStore ==
    /\ users = {}
    /\ categories = DefaultCategories
    /\ recipes = {}
    /\ ingredients = <<>>
    /\ comments = {}
    /\ ratings = {}
    /\ files = {}
    /\ nextId = [recipe |-> 1, comment |-> 1, rating |-> 1]
    /\ reqs = EmptyBag
    /\ resp = InitialResp

\* the store once alice and bob have registered, in that order
TwoUsers ==
    /\ users = {AliceRow, BobRow}
    /\ categories = DefaultCategories
    /\ recipes = {}
    /\ ingredients = <<>>
    /\ comments = {}
    /\ ratings = {}
    /\ files = {}
    /\ nextId = [recipe |-> 1, comment |-> 1, rating |-> 1]
    /\ reqs = EmptyBag
    /\ resp = InitialResp

\* the store once alice has registered
OneUser ==
    /\ users = {AliceRow}
    /\ categories = DefaultCategories
    /\ recipes = {}
    /\ ingredients = <<>>
    /\ comments = {}
    /\ ratings = {}
    /\ files = {}
    /\ nextId = [recipe |-> 1, comment |-> 1, rating |-> 1]
    /\ reqs = EmptyBag
    /\ resp = InitialResp

(***************************************************************************)
(* Spec: recipes, comments and ratings of two registered users, the        *)
(* requests handled one at a time.                                         *)
(***************************************************************************)
Init == TwoUsers

Next ==
    \/ \E actor \in users, form \in RecipeForms : DoCreate(actor, form, TRUE)
    \/ \E actor \in users, id \in RecipeIds, form \in RecipeForms :
          DoEdit(actor, id, form, TRUE)
    \/ \E actor \in users, id \in RecipeIds, removeFails \in BOOLEAN :
          DoDelete(actor, id, removeFails)
    \/ \E actor \in users, id \in RecipeIds, content \in CommentInputs :
          DoComment(actor, id, content)
    \/ \E actor \in users, id \in RecipeIds, score \in {None, Some(5)} :
          DoRate(actor, id, score, TRUE)

Spec == Init /\ [][Next]_vars

(***************************************************************************)
(* SpecRate: ratings of two registered users, the requests handled one at  *)
(* a time.                                                                 *)
(***************************************************************************)
NextRate ==
    \/ \E actor \in users, saveOk \in BOOLEAN : DoCreate(actor, FormA, saveOk)
    \/ \E actor \in users, id \in RecipeIds : DoDelete(actor, id, FALSE)
    \/ \E actor \in users, id \in RecipeIds, score \in ScoreInputs, fk \in BOOLEAN :
          DoRate(actor, id, score, fk)

SpecRate == TwoUsers /\ [][NextRate]_vars

(***************************************************************************)
(* SpecRace: rate requests that interleave with each other and with        *)
(* registration and recipe create and delete, from the store in which      *)
(* alice has registered.                                                   *)
(***************************************************************************)
NextRace ==
    \/ \E form \in {Alice, Bob} : DoRegister(form)
    \/ \E actor \in users : DoCreate(actor, FormB, TRUE)
    \/ \E actor \in users, id \in RecipeIds : DoDelete(actor, id, FALSE)
    \/ \E actor \in users, id \in RecipeIds, score \in {Some(1), Some(5)} :
          RateBegin(actor, id, score)
    \/ \E req \in BagToSet(reqs), fk \in BOOLEAN : RateCommit(req, fk)

SpecRace == OneUser /\ [][NextRace]_vars

(***************************************************************************)
(* SpecAuth: registration from the empty store.                            *)
(***************************************************************************)
Usernames == {"alice", "bob", "carol", "al"}
Emails == {"a@x.org", "b@x.org", "c@x.org"}
RegisterForms == [username : Usernames, email : Emails]

NextAuth == \E form \in RegisterForms : DoRegister(form)

SpecAuth == EmptyStore /\ [][NextAuth]_vars

(***************************************************************************)
(* SpecScale: the scale and shopping-list endpoints over the recipes of    *)
(* two registered users.                                                   *)
(***************************************************************************)
ScaleForm1 == [servings |-> Some(4), category_id |-> 1, image |-> None,
               title |-> tEgg, description |-> <<>>, instructions |-> tNote,
               prep_time |-> None, cook_time |-> None, difficulty |-> "Easy",
               ingredient_name |-> <<tEgg, tSalt>>,
               ingredient_amount |-> <<<<"2">>, <<>>>>,
               ingredient_unit |-> <<<<>>, tG>>,
               ingredient_notes |-> <<tNote, <<>>>>]
ScaleForm2 == [servings |-> Some(3), category_id |-> 2, image |-> None,
               title |-> tSalt, description |-> <<>>, instructions |-> tNote,
               prep_time |-> None, cook_time |-> None, difficulty |-> "Easy",
               ingredient_name |-> <<tegg, tSalt, tEgg>>,
               ingredient_amount |-> <<<<"0", ".", "5">>, <<"0">>, <<"1">>>>,
               ingredient_unit |-> <<<<>>, tCup, tG>>,
               ingredient_notes |-> <<<<>>, tNote, <<>>>>]
ScaleForms == {ScaleForm1, ScaleForm2}

\* the servings query parameter of the scale endpoint
ServingsQueries == {None, Some(-1), Some(0), Some(1), Some(3), Some(4)}
\* the integers of a servings list of the shopping-list endpoint
ServingsListed == {-2, 0, 1, 3}

SeqsUpTo(S, n) == UNION {[1..k -> S] : k \in 0..n}

NextScale ==
    \/ \E actor \in users, form \in ScaleForms : DoCreate(actor, form, TRUE)
    \/ \E recipe_id \in RecipeIds, new_servings \in ServingsQueries :
          DoScale(recipe_id, new_servings)
    \/ \E recipe_ids \in SeqsUpTo(RecipeIds, MaxListed),
          servings \in SeqsUpTo(ServingsListed, MaxListed) :
          DoShoppingList(recipe_ids, servings)

SpecScale == TwoUsers /\ [][NextScale]_vars

(***************************************************************************)
(* Properties of registration (SpecAuth).                                  *)
(***************************************************************************)
\* C7: no two User rows share an email or a username, and a registration
\* whose email or username is already in use is rejected and leaves the
\* store unchanged, whichever row the duplicate query returns.
C7_RegistrationUnique ==
    /\ \A u, v \in users : (u.email = v.email \/ u.username = v.username) => u = v
    /\ \A form \in RegisterForms :
          (\E u \in users : u.email = form.email \/ u.username = form.username) =>
              \A existing_user \in FirstUser(Store, form) :
                  LET out == Register(Store, form, existing_user) IN
                  /\ out.st = Store
                  /\ out.resp.status \in {"rejected", "invalid"}

\* a registration was rejected as a duplicate while two users are registered
C7_Witness ==
    /\ resp.op = "register"
    /\ resp.status = "rejected"
    /\ Cardinality(users) >= 2

\* C8: a rejected registration whose email is in use is told 'Email already
\* registered', also when its username collides with another user;
\* 'Username already taken' is told only when the email is not in use.
C8_MessageNamesEmailFirst ==
    \A form \in RegisterForms :
        \A existing_user \in FirstUser(Store, form) :
            LET out == Register(Store, form, existing_user) IN
            out.resp.status = "rejected" =>
                out.resp.msg = IF \E u \in users : u.email = form.email
                               THEN "Email already registered"
                               ELSE "Username already taken"

(***************************************************************************)
(* Properties of rating, the requests handled one at a time (SpecRate).    *)
(***************************************************************************)
\* C2: when a user who has rated a recipe with s1 rates it again with s2,
\* the request succeeds, the pair keeps exactly one row and it holds s2, no
\* row is added, and the average of the recipe is the mean of its rows
\* recomputed, (old sum - s1 + s2) / count; a recipe without ratings has
\* average 0.
C2_RerateOverwrites ==
    /\ \A r \in recipes :
          RatingsOfRecipe(ratings, r.id) = {} => get_average_rating(ratings, r.id) = RatZero
    /\ \A actor \in users, r \in recipes, s2 \in 1..5, fk \in BOOLEAN :
          \A old \in RatingsOf(ratings, actor.id, r.id) :
              \A existing_rating \in FirstRating(Store, actor.id, r.id) :
                  LET out == Rate(Store, actor, r.id, Some(s2), existing_rating, fk)
                      mine == RatingsOf(out.st.ratings, actor.id, r.id)
                      before == RatingsOfRecipe(ratings, r.id)
                      after == RatingsOfRecipe(out.st.ratings, r.id)
                      avg == get_average_rating(out.st.ratings, r.id)
                  IN  /\ out.resp.status = "ok"
                      /\ Cardinality(mine) = 1
                      /\ \A x \in mine : x.score = s2
                      /\ Cardinality(after) = Cardinality(before)
                      /\ avg[1] * Cardinality(after)
                            = (SumScores(before) - old.score + s2) * avg[2]
                      /\ out.resp.data.new_average = avg
                      /\ out.resp.data.user_rating = s2

\* the older of two rows of a recipe was re-rated to 5 after the newer one
\* was inserted, and the answer carries the average 3 of the rows 5 and 1
C2_Witness ==
    /\ resp.op = "rate"
    /\ resp.status = "ok"
    /\ resp.data.user_rating = 5
    /\ resp.data.new_average = <<3, 1>>
    /\ nextId.rating = 3
    /\ \E x, y \in ratings :
          /\ x.recipe_id = y.recipe_id
          /\ x.id = 1 /\ x.score = 5
          /\ y.id = 2 /\ y.score = 1

\* C3: a rate request whose score is missing or outside 1..5 is rejected and
\* changes nothing; a score in 1..5 is accepted and stored for the user and
\* the recipe; every stored score is in 1..5.
C3_ScoreValidated ==
    /\ \A x \in ratings : x.score \in 1..5
    /\ \A actor \in users, r \in recipes, score \in ScoreInputs, fk \in BOOLEAN :
          \A existing_rating \in FirstRating(Store, actor.id, r.id) :
              LET out == Rate(Store, actor, r.id, score, existing_rating, fk) IN
              IF score = None \/ Val(score) \notin 1..5
              THEN out.resp.status = "invalid" /\ out.st = Store
              ELSE /\ out.resp.status = "ok"
                   /\ \E x \in out.st.ratings :
                         /\ x.user_id = actor.id
                         /\ x.recipe_id = r.id
                         /\ x.score = Val(score)

\* a score was rejected while the scores 1 and 5 are stored
C3_Witness ==
    /\ resp.op = "rate"
    /\ resp.status = "invalid"
    /\ \E x, y \in ratings : x.score = 1 /\ y.score = 5

(***************************************************************************)
(* Properties of edit and delete (Spec).                                   *)
(***************************************************************************)
\* C5: an edit or a delete of a recipe by a user who does not own it is
\* rejected and changes nothing: the recipe, its ingredients, comments,
\* ratings and image file, and the rest of the store stay as they were.
C5_NonOwnerRejected ==
    \A actor \in users, r \in recipes :
        r.user_id # actor.id =>
            /\ \A form \in RecipeForms, saveOk \in BOOLEAN :
                  LET out == Edit(Store, actor, r.id, form, saveOk) IN
                  out.resp.status = "forbidden" /\ out.st = Store
            /\ \A removeFails \in BOOLEAN :
                  LET out == Delete(Store, actor, r.id, removeFails) IN
                  out.resp.status = "forbidden" /\ out.st = Store

\* a delete was refused while a recipe has an image, a comment and a rating
C5_Witness ==
    /\ resp.op = "delete"
    /\ resp.status = "forbidden"
    /\ \E r \in recipes :
          /\ r.image # None
          /\ Val(r.image) \in files
          /\ CommentsOfRecipe(comments, r.id) # {}
          /\ RatingsOfRecipe(ratings, r.id) # {}

\* C6: a delete of a recipe by its owner succeeds, whether or not the image
\* file could be removed; the recipe and all its ingredients, comments and
\* ratings are gone; its category remains and counts one recipe fewer; the
\* users, the other recipes and their ingredients, comments and ratings are
\* unchanged.
C6_OwnerDeleteCascades ==
    \A r \in recipes, removeFails \in BOOLEAN :
        \A actor \in {u \in users : u.id = r.user_id} :
            LET out == Delete(Store, actor, r.id, removeFails)
                after == out.st
            IN  /\ out.resp.status = "ok"
                /\ after.recipes = recipes \ {r}
                /\ RecipeGet(after, r.id) = {}
                /\ IngredientsOf(after.ingredients, r.id) = <<>>
                /\ CommentsOfRecipe(after.comments, r.id) = {}
                /\ RatingsOfRecipe(after.ratings, r.id) = {}
                /\ after.categories = categories
                /\ \E c \in after.categories : c.id = r.category_id
                /\ recipe_count(after.recipes, r.category_id)
                      = recipe_count(recipes, r.category_id) - 1
                /\ after.users = users
                /\ \A o \in recipes \ {r} :
                      /\ IngredientsOf(after.ingredients, o.id) = IngredientsOf(ingredients, o.id)
                      /\ CommentsOfRecipe(after.comments, o.id) = CommentsOfRecipe(comments, o.id)
                      /\ RatingsOfRecipe(after.ratings, o.id) = RatingsOfRecipe(ratings, o.id)

\* a recipe with a comment and a rating was deleted although its image file
\* could not be removed, and the other recipe keeps its rating
C6_Witness ==
    /\ resp.op = "delete"
    /\ resp.status = "ok"
    /\ Cardinality(recipes) = 1
    /\ nextId.comment = 2
    /\ comments = {}
    /\ nextId.rating = 3
    /\ Cardinality(ratings) = 1
    /\ \E f \in files : \A r \in recipes : r.image # Some(f)

(***************************************************************************)
(* Properties of interleaved rate requests (SpecRace).                     *)
(***************************************************************************)
\* C1: in every reachable state, whatever the interleaving of the requests,
\* no two Rating rows have the same user and the same recipe.
C1_OneRatingPerUserRecipe ==
    \A x, y \in ratings :
        (x.user_id = y.user_id /\ x.recipe_id = y.recipe_id) => x = y

\* the second insert of two racing first ratings was refused by the store
C1_Witness ==
    /\ resp.op = "rate"
    /\ resp.status = "integrity_error"
    /\ resp.msg = "UNIQUE constraint failed"
    /\ ratings # {}

\* C4: when two first ratings of one user for one recipe race, the request
\* that commits second is handled as an update: it succeeds, and the pair
\* has exactly one row, holding its score.
C4_RaceLoserUpdates ==
    \A req \in BagToSet(reqs), fk \in BOOLEAN :
        (/\ req.existing = None
         /\ RecipeGet(Store, req.recipe) # {}
         /\ RatingsOf(ratings, req.user, req.recipe) # {}) =>
            LET out == RateFinish(Store, req, fk)
                mine == RatingsOf(out.st.ratings, req.user, req.recipe)
            IN  /\ out.resp.status = "ok"
                /\ Cardinality(mine) = 1
                /\ \A x \in mine : x.score = req.score

(***************************************************************************)
(* Properties of scaling (SpecScale).                                      *)
(***************************************************************************)
\* the largest target number of servings the scaling property is checked for
MaxTarget == 4

\* C9: scaling a recipe of S > 0 servings to N > 0 servings gives, in the
\* same order, one entry per ingredient with its name, unit and notes; an
\* ingredient without amount stays without, an amount A becomes A * N / S,
\* and for N = S every amount is returned unchanged.
C9_ScalingProportional ==
    \A r \in recipes, N \in 1..MaxTarget :
        r.servings > 0 =>
            LET rows == IngredientsOf(ingredients, r.id)
                scaled == get_scaled_ingredients(Store, r, N)
            IN  /\ Len(scaled) = Len(rows)
                /\ \A i \in 1..Len(rows) :
                      /\ scaled[i].name = rows[i].name
                      /\ scaled[i].unit = rows[i].unit
                      /\ scaled[i].notes = rows[i].notes
                      /\ scaled[i].amount =
                            IF rows[i].amount = None THEN None
                            ELSE Some(Rat(Val(rows[i].amount)[1] * N,
                                          Val(rows[i].amount)[2] * r.servings))
                      /\ N = r.servings => scaled[i].amount = rows[i].amount

\* C10: every caller of the scaling hands it a positive number of servings:
\* the scale endpoint answers 400 to a missing, zero or negative value, and
\* the shopping list scales each listed recipe to a positive number.
C10_CallersPassPositive ==
    /\ \A recipe_id \in RecipeIds, q \in ServingsQueries :
          (RecipeGet(Store, recipe_id) # {} /\ (q = None \/ Val(q) <= 0)) =>
              scale_recipe(Store, recipe_id, q).resp.status = "400"
    /\ \A recipe_ids \in SeqsUpTo(RecipeIds, MaxListed),
          servings \in SeqsUpTo(ServingsListed, MaxListed) :
          \A i \in 1..Len(recipe_ids) :
              \A recipe \in RecipeGet(Store, recipe_ids[i]) :
                  recipe_servings(recipe, servings, i) > 0

(***************************************************************************)
(* SpecList: the shopping list over recipes whose ingredient names and     *)
(* units hold the "_" that the merge key is joined with.                   *)
(***************************************************************************)
tA == <<"a">>
tA_B == <<"a", "_", "b">>
tC == <<"c">>
tB_C == <<"b", "_", "c">>

ScaleForm3 == [servings |-> Some(2), category_id |-> 1, image |-> None,
               title |-> tA, description |-> <<>>, instructions |-> tNote,
               prep_time |-> None, cook_time |-> None, difficulty |-> "Easy",
               ingredient_name |-> <<tA_B, tA>>,
               ingredient_amount |-> <<<<"1">>, <<"2">>>>,
               ingredient_unit |-> <<tC, tB_C>>,
               ingredient_notes |-> <<<<>>, tNote>>]
ListForms == {ScaleForm1, ScaleForm2, ScaleForm3}

NextList ==
    \/ \E actor \in users, form \in ListForms : DoCreate(actor, form, TRUE)
    \/ \E recipe_ids \in SeqsUpTo(RecipeIds, MaxListed),
          servings \in SeqsUpTo({1, 3}, MaxListed) :
          DoShoppingList(recipe_ids, servings)

SpecList == TwoUsers /\ [][NextList]_vars

\* the scaled entries that the loops of shopping_list go through, in
\* processing order, from 1-based position i of the request on
RECURSIVE ScaledOfRequest(_, _, _, _)
ScaledOfRequest(st, recipe_ids, servings, i) ==
    IF i > Len(recipe_ids) THEN <<>>
    ELSE IF RecipeGet(st, recipe_ids[i]) = {}
    THEN ScaledOfRequest(st, recipe_ids, servings, i + 1)
    ELSE LET recipe == CHOOSE r \in RecipeGet(st, recipe_ids[i]) : TRUE IN
         get_scaled_ingredients(st, recipe, recipe_servings(recipe, servings, i))
            \o ScaledOfRequest(st, recipe_ids, servings, i + 1)

(***************************************************************************)
(* Properties of the shopping list (SpecList, SpecScale).                  *)
(***************************************************************************)
\* the sum of the amounts (absent counted as 0) of the entries from
\* position i on whose lowercased name is name and whose unit is unit
RECURSIVE SumFor(_, _, _, _)
SumFor(entries, name, unit, i) ==
    IF i > Len(entries) THEN RatZero
    ELSE IF Lower(entries[i].name) = name /\ entries[i].unit = unit
    THEN RatAdd(IF entries[i].amount = None THEN RatZero ELSE Val(entries[i].amount),
                SumFor(entries, name, unit, i + 1))
    ELSE SumFor(entries, name, unit, i + 1)

\* C11: the shopping list has exactly one entry per pair (lowercased name,
\* unit) of the scaled entries of the found recipes: entries merge if and
\* only if both agree, and the entry of a pair holds the sum of the pair's
\* scaled amounts, absent amounts counted as 0.
C11_MergeByNameAndUnit ==
    \A recipe_ids \in SeqsUpTo(RecipeIds, MaxListed),
       servings \in SeqsUpTo({1, 3}, MaxListed) :
        LET entries == ScaledOfRequest(Store, recipe_ids, servings, 1)
            list == shopping_list(Store, recipe_ids, servings).resp.data
            pairs == {<<Lower(entries[i].name), entries[i].unit>> : i \in 1..Len(entries)}
        IN  /\ Len(list) = Cardinality(pairs)
            /\ \A p \in pairs :
                  \E j \in 1..Len(list) :
                      /\ Lower(list[j].name) = p[1]
                      /\ list[j].unit = p[2]
                      /\ list[j].amount = SumFor(entries, p[1], p[2], 1)

\* C12: the notes of a shopping-list entry are the notes of the last scaled
\* entry, in processing order, with the entry's lowercased name and unit.
C12_LastNotesWin ==
    \A recipe_ids \in SeqsUpTo(RecipeIds, MaxListed),
       servings \in SeqsUpTo(ServingsListed, MaxListed) :
        LET entries == ScaledOfRequest(Store, recipe_ids, servings, 1)
            list == shopping_list(Store, recipe_ids, servings).resp.data
        IN  \A j \in 1..Len(list) :
                LET same == {i \in 1..Len(entries) :
                                /\ Lower(entries[i].name) = Lower(list[j].name)
                                /\ entries[i].unit = list[j].unit}
                IN  \A i \in same :
                        (\A k \in same : k <= i) => list[j].notes = entries[i].notes

(***************************************************************************)
(* Search and view (routes/main.py, routes/recipes.py).                    *)
(***************************************************************************)
\* Recipe.created_at (default=datetime.utcnow, never updated): inserts are
\* stamped in the order of their primary keys; equal stamps are not modelled
created_at(row) == row.id

\* the comparison of one character by LIKE; ci: the database's LIKE ignores
\* the case of letters (SQLite, the default database) or does not
SameChar(a, b, ci) == IF ci THEN LowerChar(a) = LowerChar(b) ELSE a = b

\* text LIKE pattern, with the wildcards % and _
RECURSIVE LikeMatch(_, _, _)
LikeMatch(pattern, text, ci) ==
    IF pattern = <<>> THEN text = <<>>
    ELSE IF Head(pattern) = "%"
    THEN \/ LikeMatch(Tail(pattern), text, ci)
         \/ text # <<>> /\ LikeMatch(pattern, Tail(text), ci)
    ELSE /\ text # <<>>
         /\ Head(pattern) = "_" \/ SameChar(Head(pattern), Head(text), ci)
         /\ LikeMatch(Tail(pattern), Tail(text), ci)

\* column.contains(query): column LIKE '%' || query || '%', nothing escaped
Contains(column, query, ci) == LikeMatch(<<"%">> \o query \o <<"%">>, column, ci)

\* (Recipe.prep_time + Recipe.cook_time) <= max_time; NULL + n is NULL, and
\* a row whose condition is NULL is not selected
WithinTime(row, max_time) ==
    /\ row.prep_time # None
    /\ row.cook_time # None
    /\ Val(row.prep_time) + Val(row.cook_time) <= max_time

\* the rows selected by the filters that search applies
SearchRows(st, query, category_id, difficulty, max_time, ci) ==
    {r \in st.recipes :
        /\ query # <<>> =>
              \/ Contains(r.title, query, ci)
              \/ Contains(r.description, query, ci)
              \/ Contains(r.instructions, query, ci)
        /\ (category_id # None /\ Val(category_id) # 0) => r.category_id = Val(category_id)
        /\ (difficulty # None /\ Val(difficulty) # "") => r.difficulty = Val(difficulty)
        /\ (max_time # None /\ Val(max_time) # 0) => WithinTime(r, Val(max_time))}

\* order_by(desc(created_at)).all(), as the sequence of the rows' ids
RECURSIVE OrderByCreatedDesc(_)
OrderByCreatedDesc(rows) ==
    IF rows = {} THEN <<>>
    ELSE LET newest == CHOOSE r \in rows : \A o \in rows : created_at(o) <= created_at(r)
         IN  <<newest.id>> \o OrderByCreatedDesc(rows \ {newest})

search(st, query, category_id, difficulty, max_time, ci) ==
    Out(st, Response("search", "200", "",
                     OrderByCreatedDesc(SearchRows(st, query, category_id, difficulty,
                                                   max_time, ci))))

\* what the rating query of view may return for the visitor (None: anonymous)
ViewRating(st, visitor, id) ==
    IF visitor = None THEN {None} ELSE FirstRating(st, Val(visitor).id, id)

\* view: the recipe, its comments newest first and the visitor's rating
view(st, id, user_rating) ==
    IF RecipeGet(st, id) = {}
    THEN Out(st, Response("view", "not_found", "", <<>>))
    ELSE Out(st, Response("view", "200", "",
                          [recipe |-> id,
                           comments |-> OrderByCreatedDesc(CommentsOfRecipe(st.comments, id)),
                           user_rating |-> user_rating]))

DoSearch(query, category_id, difficulty, max_time, ci) ==
    /\ Install(search(Store, query, category_id, difficulty, max_time, ci))
    /\ UNCHANGED reqs

DoView(visitor, id) ==
    \E user_rating \in ViewRating(Store, visitor, id) :
        /\ Install(view(Store, id, user_rating))
        /\ UNCHANGED reqs

(***************************************************************************)
(* SpecRead: the read requests (search, view, scale, shopping list) among  *)
(* bob's creates, alice's ratings and the comments of both.                *)
(***************************************************************************)
SearchForm1 == [servings |-> Some(4), category_id |-> 1, image |-> None,
                title |-> tEgg, description |-> <<>>, instructions |-> tNote,
                prep_time |-> Some(10), cook_time |-> Some(20), difficulty |-> "Easy",
                ingredient_name |-> <<tEgg>>, ingredient_amount |-> <<<<"2">>>>,
                ingredient_unit |-> <<<<>>>>, ingredient_notes |-> <<<<>>>>]
SearchForm2 == [servings |-> Some(2), category_id |-> 2, image |-> None,
                title |-> tSalt, description |-> tegg, instructions |-> tNote,
                prep_time |-> None, cook_time |-> Some(5), difficulty |-> "Hard",
                ingredient_name |-> <<tSalt>>, ingredient_amount |-> <<<<>>>>,
                ingredient_unit |-> <<tG>>, ingredient_notes |-> <<tNote>>]
SearchForm3 == [servings |-> Some(1), category_id |-> 1, image |-> None,
                title |-> tNote, description |-> <<>>, instructions |-> tSalt,
                prep_time |-> Some(0), cook_time |-> Some(0), difficulty |-> "Easy",
                ingredient_name |-> <<tegg>>, ingredient_amount |-> <<<<"1">>>>,
                ingredient_unit |-> <<<<>>>>, ingredient_notes |-> <<<<>>>>]
SearchForms == {SearchForm1, SearchForm2, SearchForm3}

\* the parameters q, category, difficulty and max_time of a search request
Queries == {<<>>, <<"e">>, <<"g", "g">>, <<"%">>}
CategoryQueries == {None, Some(0), Some(1), Some(3)}
DifficultyQueries == {None, Some(""), Some("Easy"), Some("Hard")}
MaxTimeQueries == {None, Some(0), Some(5), Some(30)}

Visitors == {None} \cup {Some(u) : u \in users}

NextRead ==
    \/ \E form \in SearchForms : DoCreate(BobRow, form, TRUE)
    \/ \E actor \in users, id \in RecipeIds : DoComment(actor, id, "Nice")
    \/ \E id \in RecipeIds : DoRate(AliceRow, id, Some(5), TRUE)
    \/ \E query \in Queries, category_id \in {None, Some(1)},
          difficulty \in {None, Some("Hard")}, max_time \in {None, Some(0), Some(30)},
          ci \in BOOLEAN :
          DoSearch(query, category_id, difficulty, max_time, ci)
    \/ \E visitor \in Visitors, id \in RecipeIds : DoView(visitor, id)
    \/ \E recipe_id \in RecipeIds, new_servings \in ServingsQueries :
          DoScale(recipe_id, new_servings)
    \/ \E recipe_ids \in SeqsUpTo(RecipeIds, MaxListed), servings \in SeqsUpTo({0, 3}, 1) :
          DoShoppingList(recipe_ids, servings)

SpecRead == TwoUsers /\ [][NextRead]_vars

(***************************************************************************)
(* Properties of search and of the read requests (SpecRead).               *)
(***************************************************************************)
\* the ids of a listing, as a set
Listed(listing) == {listing[i] : i \in 1..Len(listing)}

\* C13: whenever a search carries a max_time value, the result holds exactly
\* the recipes that pass the other active filters, have both prep_time and
\* cook_time, and have prep_time + cook_time <= max_time.
C13_MaxTimeBounds ==
    \A query \in Queries, category_id \in CategoryQueries,
       difficulty \in DifficultyQueries, max_time \in MaxTimeQueries \ {None},
       ci \in BOOLEAN :
        LET result == search(Store, query, category_id, difficulty, max_time, ci).resp.data
            others == search(Store, query, category_id, difficulty, None, ci).resp.data
        IN  Listed(result) =
                {r.id : r \in {o \in recipes :
                                  /\ o.id \in Listed(others)
                                  /\ o.prep_time # None
                                  /\ o.cook_time # None
                                  /\ Val(o.prep_time) + Val(o.cook_time) <= Val(max_time)}}

\* C14: the search result is exactly the recipes that satisfy every filter
\* the request carries (the query is a substring of the title, the
\* description or the instructions, in the database's sense of case; the
\* category id is equal; the difficulty is equal; the max-time bound
\* holds), each once and in descending order of creation.
C14_SearchIsConjunction ==
    \A query \in Queries, category_id \in CategoryQueries,
       difficulty \in DifficultyQueries, max_time \in MaxTimeQueries, ci \in BOOLEAN :
        LET result == search(Store, query, category_id, difficulty, max_time, ci).resp.data
            Substring(text) ==
                \E k \in 0..(Len(text) - Len(query)) :
                    \A j \in 1..Len(query) : SameChar(query[j], text[k + j], ci)
            satisfying ==
                {r \in recipes :
                    /\ \/ Substring(r.title)
                       \/ Substring(r.description)
                       \/ Substring(r.instructions)
                    /\ category_id # None => r.category_id = Val(category_id)
                    /\ difficulty \notin {None, Some("")} => r.difficulty = Val(difficulty)
                    /\ max_time # None =>
                          /\ r.prep_time # None
                          /\ r.cook_time # None
                          /\ Val(r.prep_time) + Val(r.cook_time) <= Val(max_time)}
        IN  /\ Listed(result) = {r.id : r \in satisfying}
            /\ \A i, j \in 1..Len(result) :
                  i < j => \A a \in RecipeGet(Store, result[i]), b \in RecipeGet(Store, result[j]) :
                               created_at(a) > created_at(b)

\* the op of the responses of the read requests
ReadOps == {"scale", "shopping_list", "search", "view"}

\* C18: a step that answers a read request (scale, shopping list, search,
\* view), whatever its inputs and its answer, leaves every User, Category,
\* Recipe, Ingredient, Comment and Rating row as it was.
C18_ReadsChangeNothing ==
    [][resp'.op \in ReadOps =>
          UNCHANGED <<users, categories, recipes, ingredients, comments, ratings>>]_vars

\* a recipe with a comment and a rating was scaled to another number of
\* servings, and it and its ingredients are stored as created
C18_Witness ==
    /\ resp.op = "scale"
    /\ resp.status = "200"
    /\ resp.data.new_servings # resp.data.original_servings
    /\ \E r \in recipes :
          /\ r.servings = resp.data.original_servings
          /\ \E i \in 1..Len(resp.data.ingredients) :
                /\ resp.data.ingredients[i].amount # None
                /\ resp.data.ingredients[i].amount
                      # IngredientsOf(ingredients, r.id)[i].amount
          /\ CommentsOfRecipe(comments, r.id) # {}
          /\ RatingsOfRecipe(ratings, r.id) # {}

(***************************************************************************)
(* SpecEdit: create, edit and delete of two registered users, with image   *)
(* saves that succeed or fail.                                             *)
(***************************************************************************)
NextEdit ==
    \/ \E actor \in users, form \in RecipeForms, saveOk \in BOOLEAN :
          DoCreate(actor, form, saveOk)
    \/ \E actor \in users, id \in RecipeIds, form \in RecipeForms, saveOk \in BOOLEAN :
          DoEdit(actor, id, form, saveOk)
    \/ \E actor \in users, id \in RecipeIds : DoDelete(actor, id, FALSE)

SpecEdit == TwoUsers /\ [][NextEdit]_vars

C16_MisalignedHandled ==
    \A actor \in users, form \in RecipeForms, saveOk \in BOOLEAN :
        RecipeFormValid(Store, form) =>
            /\ Create(Store, actor, form, saveOk).resp.status # "error500"
            /\ \A r \in recipes :
                  LET edited == Edit(Store, actor, r.id, form, saveOk) IN
                  /\ edited.resp.status # "error500"
                  /\ edited.resp.status # "ok" =>
                        IngredientsOf(edited.st.ingredients, r.id)
                            = IngredientsOf(ingredients, r.id)

(***************************************************************************)
(* SpecAll: register, create, edit, delete, comment and rate, the requests *)
(* handled one at a time, from the store in which alice has registered.    *)
(***************************************************************************)
NextAll ==
    \/ \E form \in {Alice, Bob} : DoRegister(form)
    \/ \E actor \in users, form \in {FormA, FormMisaligned} : DoCreate(actor, form, TRUE)
    \/ \E actor \in users, id \in RecipeIds : DoEdit(actor, id, FormB, TRUE)
    \/ \E actor \in users, id \in RecipeIds : DoDelete(actor, id, FALSE)
    \/ \E actor \in users, id \in RecipeIds : DoComment(actor, id, "Nice")
    \/ \E actor \in users, id \in RecipeIds, fk \in BOOLEAN :
          DoRate(actor, id, Some(5), fk)

SpecAll == OneUser /\ [][NextAll]_vars

(***************************************************************************)
(* Referential integrity (SpecAll).                                        *)
(***************************************************************************)
\* C17: in every reachable state every Ingredient, Comment and Rating
\* refers to an existing Recipe, every Comment and Rating to an existing
\* User, and every Recipe to an existing User and an existing Category.
C17_ReferencesExist ==
    /\ \A i \in 1..Len(ingredients) : RecipeGet(Store, ingredients[i].recipe_id) # {}
    /\ \A c \in comments :
          /\ RecipeGet(Store, c.recipe_id) # {}
          /\ \E u \in users : u.id = c.user_id
    /\ \A x \in ratings :
          /\ RecipeGet(Store, x.recipe_id) # {}
          /\ \E u \in users : u.id = x.user_id
    /\ \A r \in recipes :
          /\ \E u \in users : u.id = r.user_id
          /\ \E c \in categories : c.id = r.category_id

\* bob, registered after alice, deleted his recipe with its ingredient,
\* comment and rating; the other recipe and its rating remain
C17_Witness ==
    /\ resp.op = "delete"
    /\ resp.status = "ok"
    /\ BobRow \in users
    /\ nextId.recipe = 3
    /\ \E r \in recipes :
          /\ r.user_id # BobRow.id
          /\ IngredientsOf(ingredients, r.id) # <<>>
          /\ RatingsOfRecipe(ratings, r.id) # {}
    /\ nextId.comment = 2
    /\ comments = {}
    /\ nextId.rating = 3
    /\ Cardinality(ratings) = 1

====
